---- MODULE Spec2Model ----
(***************************************************************************)
(* The keeper of beirao/keeper-decentralize-foot-bet: main.py processes    *)
(* the rows of table `matches` whose isDeployed is 1, one row after the    *)
(* other, inside one try/except per row.  An invocation of main() is a     *)
(* process of its own (cron.py starts it with os.system), so several       *)
(* invocations may run against the same sqlite file.                       *)
(***************************************************************************)
EXTENDS Integers, Sequences, FiniteSets, TLC

VARIABLES
    db,             \* the committed content of table matches: id -> row
    wdb,            \* the content as seen inside the open write transaction
    writer,         \* the invocation holding sqlite's write lock, or NoWriter
    clock,          \* datetime.now() as a timestamp, in seconds
    config,         \* config["timeoutKeeperNeeded"], in days
    pc,             \* per invocation: the statement of main() it is at
    allDeployedBet, \* per invocation: the rows fetched at line 106
    k,              \* per invocation: how many rows the for loop has taken
    tempo,          \* per invocation: the local tempo of main()
    isUpkeepNeeded, \* per invocation: the local isUpkeepNeeded
    matchState,     \* per invocation: the local matchState
    now,            \* per invocation: the local now
    score,          \* per invocation: <<home_score, away_score>> of registerMatchScore
    caller,         \* per invocation: the call site registerMatchScore returns to
    calls,          \* history: what the current iteration of the loop has done so far
    raised,         \* history: the loop positions (from 1) whose iteration raised
    fetched,        \* history: the provider's answers of the current iteration, in order
    refetches,      \* history: how often the invocation has reached line 132
    cron            \* cron.py: the statement it is at, and the main.py it waits for

vars == <<db, wdb, writer, clock, config, pc, allDeployedBet, k, tempo,
          isUpkeepNeeded, matchState, now, score, caller, calls, raised,
          fetched, refetches, cron>>

(***************************************************************************)
(* Bounds of the model.                                                    *)
(***************************************************************************)
NumMatches == 1
BatchRows == 2
ThrottleBatch == 120

(***************************************************************************)
(* Constants of the program.                                               *)
(***************************************************************************)
Day == 24 * 60 * 60
GraceDays == 3
ThrottlePeriod == 50
ACTIVE == 1
FINALIZED == 2
PENDING == 0

Invocations == {"p", "q"}
NoWriter == "none"
NoChild == "none"

\* A nullable integer column: <<>> is NULL, <<n>> is the integer n.
NULL == <<>>
Some(n) == <<n>>

\* The values config["timeoutKeeperNeeded"] is drawn from: a timeout longer than
\* the three days of line 126.
TimeoutChoices == {GraceDays + 1}
\* The value of column date the rows are created with.
T0 == 0
\* The full-time score the provider answers with.
ProviderScores == {<<1, 0>>}
\* The answers of the provider where the same match is asked for more than
\* once: the same score again, or another one.
ScoreChoices == {<<1, 0>>, <<2, 1>>}
\* The values getWinner() answers with.
WinnerCodes == {PENDING, 2}

Row(d) == [date |-> d, isDeployed |-> ACTIVE, home_score |-> NULL, away_score |-> NULL]

Matches == DOMAIN db

\* SELECT match_id, ... FROM matches WHERE isDeployed = 1, in table order.
SelectAll(d) ==
    [n \in 1..Cardinality(DOMAIN d) |->
        [match_id |-> n, date |-> d[n].date, isDeployed |-> d[n].isDeployed]]
SelectDeployed(d) ==
    LET IsDeployed(id) == d[id].isDeployed = ACTIVE
        ids == SelectSeq([n \in 1..Cardinality(DOMAIN d) |-> n], IsDeployed)
    IN  [n \in 1..Len(ids) |->
            [match_id |-> ids[n], date |-> d[ids[n]].date,
             isDeployed |-> d[ids[n]].isDeployed]]

\* bet.functions.getMatchId().call(): the id the contract was deployed with.
getMatchId(m) == m

\* UPDATE matches SET col = val WHERE match_id = id.
UpdateAll(d, id, col, val) ==
    [m \in DOMAIN d |-> [d[m] EXCEPT ![col] = val]]
UpdateRowAdd(d, id, col, val) ==
    IF id \in DOMAIN d
    THEN [d EXCEPT ![id][col] =
              IF col \in {"home_score", "away_score"} /\ @ # NULL
              THEN Some(@[1] + val[1]) ELSE val]
    ELSE d
UpdateRow(d, id, col, val) ==
    IF id \in DOMAIN d THEN [d EXCEPT ![id][col] = val] ELSE d

\* The condition of line 126.
FinalizeCondAnd(n, date, state, deployed) ==
    (n > date + GraceDays * Day /\ state # PENDING) /\ deployed < FINALIZED
FinalizeCond(n, date, state, deployed) ==
    (n > date + GraceDays * Day \/ state # PENDING) /\ deployed < FINALIZED

\* The condition of line 131.
RefetchCondAlways(n, date, state, t, timeout) ==
    n > date + timeout * Day /\ state # PENDING
RefetchCond(n, date, state, t, timeout) ==
    n > date + timeout * Day /\ state # PENDING /\ t % ThrottlePeriod = 0

\* Lines 133-135.
TempoNext(t) == IF t + 1 = ThrottlePeriod THEN 0 ELSE t + 1

\* The value line 128 writes, whatever getWinner answered.
StatusByWinner(state) == IF state # PENDING THEN FINALIZED ELSE ACTIVE
StatusWritten(state) == FINALIZED

\* Lines 146-147 and 101-104: main() starts whenever the script is run; it takes
\* no lock and looks for no other running keeper.
CanStartExclusive(i) == \A j \in Invocations : pc[j] = "idle"
CanStart(i) == pc[i] = "idle"

\* Line 115: performUpkeep is sent only if checkUpkeep answered true.
AlwaysPerform(r) == "perform"
AfterCheck(r) == IF r THEN "perform" ELSE "winner"

cur(i) == allDeployedBet[i][k[i]]

InitLocals ==
    /\ writer = NoWriter
    /\ pc = [i \in Invocations |-> "idle"]
    /\ allDeployedBet = [i \in Invocations |-> <<>>]
    /\ k = [i \in Invocations |-> 0]
    /\ tempo = [i \in Invocations |-> 0]
    /\ isUpkeepNeeded = [i \in Invocations |-> FALSE]
    /\ matchState = [i \in Invocations |-> PENDING]
    /\ now = [i \in Invocations |-> 0]
    /\ score = [i \in Invocations |-> <<0, 0>>]
    /\ caller = [i \in Invocations |-> "none"]
    /\ calls = [i \in Invocations |-> <<>>]
    /\ raised = [i \in Invocations |-> {}]
    /\ fetched = [i \in Invocations |-> <<>>]
    /\ refetches = [i \in Invocations |-> 0]
    /\ cron = [pc |-> "job", child |-> NoChild]

Init ==
    /\ db = [m \in 1..NumMatches |-> Row(T0)]
    /\ wdb = db
    /\ clock = T0 + GraceDays * Day
    /\ config \in TimeoutChoices
    /\ InitLocals

Log(i, what) == [calls EXCEPT ![i] = calls[i] \o what]

\* Lines 139-141: the handler logs, and the for loop goes on with the next row.
\* Nothing is rolled back: an open transaction stays open.
ExceptAborts(i) ==
    /\ pc' = [pc EXCEPT ![i] = "done"]
    /\ raised' = [raised EXCEPT ![i] = raised[i] \cup {k[i]}]
Except(i) ==
    /\ pc' = [pc EXCEPT ![i] = "for"]
    /\ raised' = [raised EXCEPT ![i] = raised[i] \cup {k[i]}]

\* cursor.execute of an UPDATE: it begins the transaction if none is open, which
\* takes sqlite's write lock, and changes the transaction's view of the table.
Execute(i, id, col, val) ==
    /\ writer \in {NoWriter, i}
    /\ wdb' = UpdateRow(wdb, id, col, val)
    /\ writer' = i
    /\ UNCHANGED db

\* The end of the process (or its death): the connection goes without a commit,
\* so an open transaction is rolled back; the locals are gone.
EndProcess(i) ==
    /\ IF writer = i THEN wdb' = db /\ writer' = NoWriter ELSE UNCHANGED <<wdb, writer>>
    /\ pc' = [pc EXCEPT ![i] = "idle"]
    /\ allDeployedBet' = [allDeployedBet EXCEPT ![i] = <<>>]
    /\ k' = [k EXCEPT ![i] = 0]
    /\ tempo' = [tempo EXCEPT ![i] = 0]
    /\ isUpkeepNeeded' = [isUpkeepNeeded EXCEPT ![i] = FALSE]
    /\ matchState' = [matchState EXCEPT ![i] = PENDING]
    /\ now' = [now EXCEPT ![i] = 0]
    /\ score' = [score EXCEPT ![i] = <<0, 0>>]
    /\ caller' = [caller EXCEPT ![i] = "none"]
    /\ calls' = [calls EXCEPT ![i] = <<>>]
    /\ raised' = [raised EXCEPT ![i] = {}]
    /\ UNCHANGED <<db, clock, config,
                   cron>>
    /\ fetched' = [fetched EXCEPT ![i] = <<>>]
    /\ refetches' = [refetches EXCEPT ![i] = 0]

\* python main.py, lines 101-108: a new process; the SELECT reads the committed
\* rows.
Launch(i) ==
    /\ CanStart(i)
    /\ pc' = [pc EXCEPT ![i] = "for"]
    /\ allDeployedBet' = [allDeployedBet EXCEPT ![i] = SelectDeployed(db)]
    /\ k' = [k EXCEPT ![i] = 0]
    /\ tempo' = [tempo EXCEPT ![i] = 0]
    /\ UNCHANGED <<db, wdb, writer, clock, config, isUpkeepNeeded, matchState, now,
                   score, caller, calls, raised,
                   fetched, refetches>>

\* main.py is run by whoever runs it (a shell, another scheduler).
Start(i) ==
    /\ Launch(i)
    /\ UNCHANGED cron

\* Line 111: the next row of the list, or the end of the loop.  The locals of
\* the iteration before are dead here (each is assigned before it is read,
\* lines 113, 120, 125 and 92-93), so they are put back to their first values.
For(i) ==
    /\ pc[i] = "for"
    /\ IF k[i] < Len(allDeployedBet[i])
       THEN /\ k' = [k EXCEPT ![i] = k[i] + 1]
            /\ pc' = [pc EXCEPT ![i] = "check"]
       ELSE /\ pc' = [pc EXCEPT ![i] = "done"]
            /\ UNCHANGED k
    /\ calls' = [calls EXCEPT ![i] = <<>>]
    /\ isUpkeepNeeded' = [isUpkeepNeeded EXCEPT ![i] = FALSE]
    /\ matchState' = [matchState EXCEPT ![i] = PENDING]
    /\ now' = [now EXCEPT ![i] = 0]
    /\ score' = [score EXCEPT ![i] = <<0, 0>>]
    /\ caller' = [caller EXCEPT ![i] = "none"]
    /\ UNCHANGED <<db, wdb, writer, clock, config, allDeployedBet, tempo, raised,
                   refetches, cron>>
    /\ fetched' = [fetched EXCEPT ![i] = <<>>]

\* Line 113 and lines 67-70: checkUpkeep answers r.
CheckUpkeep(i, r) ==
    /\ pc[i] = "check"
    /\ isUpkeepNeeded' = [isUpkeepNeeded EXCEPT ![i] = r]
    /\ pc' = [pc EXCEPT ![i] = AfterCheck(r)]
    /\ calls' = Log(i, <<IF r THEN "check:true" ELSE "check:false">>)
    /\ UNCHANGED <<db, wdb, writer, clock, config, allDeployedBet, k, tempo,
                   matchState, now, score, caller, raised,
                   fetched, refetches, cron>>

\* Line 113: the call raises.
CheckUpkeepFailsContinue(i) ==
    /\ pc[i] = "check"
    /\ pc' = [pc EXCEPT ![i] = "winner"]
    /\ calls' = Log(i, <<"check:raised">>)
    /\ UNCHANGED <<db, wdb, writer, clock, config, allDeployedBet, k, tempo,
                   isUpkeepNeeded, matchState, now, score, caller, raised,
                   fetched, refetches, cron>>
CheckUpkeepFails(i) ==
    /\ pc[i] = "check"
    /\ Except(i)
    /\ calls' = Log(i, <<"check:raised", "error">>)
    /\ UNCHANGED <<db, wdb, writer, clock, config, allDeployedBet, k, tempo,
                   isUpkeepNeeded, matchState, now, score, caller,
                   fetched, refetches, cron>>

\* Lines 116-118 and 72-84: the transaction is sent and mined; the receipt's
\* status (1 success, 0 failure) is printed and not looked at.
PerformUpkeep(i, status) ==
    /\ pc[i] = "perform"
    /\ pc' = [pc EXCEPT ![i] = "winner"]
    /\ calls' = Log(i, <<IF status = 1 THEN "perform:status1" ELSE "perform:status0">>)
    /\ UNCHANGED <<db, wdb, writer, clock, config, allDeployedBet, k, tempo,
                   isUpkeepNeeded, matchState, now, score, caller, raised,
                   fetched, refetches, cron>>

\* Lines 73-83: building, sending or waiting raises.
PerformUpkeepFails(i) ==
    /\ pc[i] = "perform"
    /\ Except(i)
    /\ calls' = Log(i, <<"perform:raised", "error">>)
    /\ UNCHANGED <<db, wdb, writer, clock, config, allDeployedBet, k, tempo,
                   isUpkeepNeeded, matchState, now, score, caller,
                   fetched, refetches, cron>>

\* Where main() goes once the if of line 126 is over: the if of line 131.
AfterFinalize(i, n, state) ==
    IF RefetchCond(n, cur(i).date, state, tempo[i], config)
    THEN /\ pc' = [pc EXCEPT ![i] = "fetch"]
         /\ caller' = [caller EXCEPT ![i] = "refetch"]
         /\ refetches' = [refetches EXCEPT ![i] = refetches[i] + 1]
    ELSE /\ pc' = [pc EXCEPT ![i] = "commit"]
         /\ UNCHANGED <<caller, refetches>>

\* Lines 120-126: getWinner answers w, now is read, and the if of line 126 (then
\* that of line 131) is decided on the row as the SELECT returned it.
GetWinner(i, w) ==
    /\ pc[i] = "winner"
    /\ matchState' = [matchState EXCEPT ![i] = w]
    /\ now' = [now EXCEPT ![i] = clock]
    /\ calls' = Log(i, <<"getWinner">>)
    /\ IF FinalizeCond(clock, cur(i).date, w, cur(i).isDeployed)
       THEN /\ pc' = [pc EXCEPT ![i] = "fetch"]
            /\ caller' = [caller EXCEPT ![i] = "finalize"]
            /\ UNCHANGED refetches
       ELSE AfterFinalize(i, clock, w)
    /\ UNCHANGED <<db, wdb, writer, clock, config, allDeployedBet, k, tempo,
                   isUpkeepNeeded, score, raised,
                   fetched, cron>>

\* Line 120: the call raises.
GetWinnerFails(i) ==
    /\ pc[i] = "winner"
    /\ Except(i)
    /\ calls' = Log(i, <<"getWinner:raised", "error">>)
    /\ UNCHANGED <<db, wdb, writer, clock, config, allDeployedBet, k, tempo,
                   isUpkeepNeeded, matchState, now, score, caller,
                   fetched, refetches, cron>>

\* Lines 87-95: getMatchId, the GET and the two subscripts succeed with score s,
\* and home_score is written.
Fetch(i, s) ==
    /\ pc[i] = "fetch"
    /\ score' = [score EXCEPT ![i] = s]
    /\ Execute(i, getMatchId(cur(i).match_id), "home_score", Some(s[1]))
    /\ pc' = [pc EXCEPT ![i] = "away"]
    /\ calls' = Log(i, <<"fetch", "home">>)
    /\ UNCHANGED <<clock, config, allDeployedBet, k, tempo,
                   isUpkeepNeeded, matchState, now, caller, raised,
                   refetches, cron>>
    /\ fetched' = [fetched EXCEPT ![i] = Append(fetched[i], s)]

\* Lines 87-93 raise: the call, the request, json.loads or a subscript (an error
\* body, no match in the list).
FetchFailsContinue(i) ==
    /\ pc[i] = "fetch"
    /\ pc' = [pc EXCEPT ![i] = IF caller[i] = "finalize" THEN "status" ELSE "commit"]
    /\ calls' = Log(i, <<"fetch:raised">>)
    /\ UNCHANGED <<db, wdb, writer, clock, config, allDeployedBet, k, tempo,
                   isUpkeepNeeded, matchState, now, score, caller, raised,
                   fetched, refetches, cron>>
FetchFails(i) ==
    /\ pc[i] = "fetch"
    /\ Except(i)
    /\ calls' = Log(i, <<"fetch:raised", "error">>)
    /\ UNCHANGED <<db, wdb, writer, clock, config, allDeployedBet, k, tempo,
                   isUpkeepNeeded, matchState, now, score, caller,
                   fetched, refetches, cron>>

\* Line 96, and the return of registerMatchScore: to line 128, or to lines 133-137.
UpdateAway(i) ==
    /\ pc[i] = "away"
    /\ Execute(i, getMatchId(cur(i).match_id), "away_score", Some(score[i][2]))
    /\ calls' = Log(i, <<"away">>)
    /\ IF caller[i] = "finalize"
       THEN /\ pc' = [pc EXCEPT ![i] = "status"]
            /\ UNCHANGED tempo
       ELSE /\ pc' = [pc EXCEPT ![i] = "commit"]
            /\ tempo' = [tempo EXCEPT ![i] = TempoNext(tempo[i])]
    /\ UNCHANGED <<clock, config, allDeployedBet, k,
                   isUpkeepNeeded, matchState, now, score, caller, raised,
                   fetched, refetches, cron>>

\* Lines 128-131: the row is marked, then the if of line 131 is decided.
UpdateStatus(i) ==
    /\ pc[i] = "status"
    /\ Execute(i, cur(i).match_id, "isDeployed", StatusWritten(matchState[i]))
    /\ calls' = Log(i, <<"status">>)
    /\ AfterFinalize(i, now[i], matchState[i])
    /\ UNCHANGED <<clock, config, allDeployedBet, k, tempo,
                   isUpkeepNeeded, matchState, now, score, raised,
                   fetched, cron>>

\* A cursor.execute of lines 95, 96 or 128 raises: the database is locked by
\* another connection, or the statement fails.  What the transaction already
\* holds stays in it.
ExecuteFails(i) ==
    /\ pc[i] \in {"fetch", "away", "status"}
    /\ Except(i)
    /\ calls' = Log(i, IF pc[i] = "fetch" THEN <<"fetch", "home:raised", "error">>
                       ELSE <<pc[i] \o ":raised", "error">>)
    /\ UNCHANGED <<db, wdb, writer, clock, config, allDeployedBet, k, tempo,
                   isUpkeepNeeded, matchState, now, score, caller,
                   fetched, refetches, cron>>

\* Line 137: what the transaction holds becomes the committed content.
Commit(i) ==
    /\ pc[i] = "commit"
    /\ IF writer = i
       THEN db' = wdb /\ writer' = NoWriter /\ UNCHANGED wdb
       ELSE UNCHANGED <<db, wdb, writer>>
    /\ pc' = [pc EXCEPT ![i] = "for"]
    /\ calls' = Log(i, <<"commit">>)
    /\ UNCHANGED <<clock, config, allDeployedBet, k, tempo,
                   isUpkeepNeeded, matchState, now, score, caller, raised,
                   fetched, refetches, cron>>

\* Line 137 raises: nothing is committed and the transaction stays open.
CommitFails(i) ==
    /\ pc[i] = "commit"
    /\ writer = i
    /\ Except(i)
    /\ calls' = Log(i, <<"commit:raised", "error">>)
    /\ UNCHANGED <<db, wdb, writer, clock, config, allDeployedBet, k, tempo,
                   isUpkeepNeeded, matchState, now, score, caller,
                   fetched, refetches, cron>>

\* Line 147 returns: the process ends.
Exit(i) ==
    /\ pc[i] = "done"
    /\ EndProcess(i)

\* The process is killed while main() runs.
Crash(i) ==
    /\ pc[i] \notin {"idle", "done"}
    /\ EndProcess(i)

\* Time passes, two days at a time, until the rows are older than the
\* configured timeout: from then on the comparisons of lines 126 and 131 with
\* now have the same outcome for ever.
Tick ==
    /\ clock <= T0 + config * Day
    /\ clock' = clock + 2 * Day
    /\ UNCHANGED <<db, wdb, writer, config, pc, allDeployedBet, k, tempo,
                   isUpkeepNeeded, matchState, now, score, caller, calls, raised,
                   fetched, refetches, cron>>

Next ==
    \/ \E i \in Invocations : Start(i)
    \/ \E i \in Invocations : For(i)
    \/ \E i \in Invocations, r \in BOOLEAN : CheckUpkeep(i, r)
    \/ \E i \in Invocations : CheckUpkeepFails(i)
    \/ \E i \in Invocations, st \in {0, 1} : PerformUpkeep(i, st)
    \/ \E i \in Invocations : PerformUpkeepFails(i)
    \/ \E i \in Invocations, w \in WinnerCodes : GetWinner(i, w)
    \/ \E i \in Invocations : GetWinnerFails(i)
    \/ \E i \in Invocations, s \in ProviderScores : Fetch(i, s)
    \/ \E i \in Invocations : FetchFails(i)
    \/ \E i \in Invocations : UpdateAway(i)
    \/ \E i \in Invocations : UpdateStatus(i)
    \/ \E i \in Invocations : ExecuteFails(i)
    \/ \E i \in Invocations : Commit(i)
    \/ \E i \in Invocations : CommitFails(i)
    \/ \E i \in Invocations : Exit(i)
    \/ \E i \in Invocations : Crash(i)
    \/ Tick

Spec == Init /\ [][Next]_vars

(***************************************************************************)
(* One invocation at a time over a batch of BatchRows rows, with every     *)
(* outcome of every call.                                                  *)
(***************************************************************************)
BatchInit ==
    /\ db = [m \in 1..BatchRows |-> Row(T0)]
    /\ wdb = db
    /\ clock = T0 + GraceDays * Day
    /\ config \in TimeoutChoices
    /\ InitLocals

BatchNext ==
    \/ Start("p")
    \/ For("p")
    \/ \E r \in BOOLEAN : CheckUpkeep("p", r)
    \/ CheckUpkeepFails("p")
    \/ \E st \in {0, 1} : PerformUpkeep("p", st)
    \/ PerformUpkeepFails("p")
    \/ \E w \in WinnerCodes : GetWinner("p", w)
    \/ GetWinnerFails("p")
    \/ \E s \in ScoreChoices : Fetch("p", s)
    \/ FetchFails("p")
    \/ UpdateAway("p")
    \/ UpdateStatus("p")
    \/ ExecuteFails("p")
    \/ Commit("p")
    \/ CommitFails("p")
    \/ Exit("p")
    \/ Crash("p")
    \/ Tick

SpecBatch == BatchInit /\ [][BatchNext]_vars

(***************************************************************************)
(* A batch in which every row is eligible for the branch of line 131: one  *)
(* invocation, ThrottleBatch rows deployed longer ago than the configured  *)
(* timeout, every call succeeding and getWinner answering a result.        *)
(***************************************************************************)
ThrottleInit ==
    /\ db = [m \in 1..ThrottleBatch |-> Row(T0)]
    /\ wdb = db
    /\ config \in TimeoutChoices
    /\ clock = T0 + (config + 1) * Day
    /\ InitLocals

ThrottleNext ==
    \/ Start("p")
    \/ For("p")
    \/ \E r \in BOOLEAN : CheckUpkeep("p", r)
    \/ PerformUpkeep("p", 1)
    \/ GetWinner("p", 2)
    \/ \E s \in ProviderScores : Fetch("p", s)
    \/ UpdateAway("p")
    \/ UpdateStatus("p")
    \/ Commit("p")
    \/ Exit("p")

SpecThrottle == ThrottleInit /\ [][ThrottleNext]_vars

(***************************************************************************)
(* cron.py: main.py is run by job() only, once at line 25 and then by      *)
(* schedule.run_pending() whenever the job is due.                         *)
(***************************************************************************)
\* Line 8: os.system returns when the command it ran has ended.
ChildEndedNoWait(c) == TRUE
ChildEnded(c) == pc[c] = "idle"

\* What cron.py leaves alone: all there is but cron itself.
CronFrame ==
    UNCHANGED <<db, wdb, writer, clock, config, pc, allDeployedBet, k, tempo,
                isUpkeepNeeded, matchState, now, score, caller, calls, raised,
                fetched, refetches>>

\* Lines 25 and 7-8: job() at start-up runs main.py as a new process i.
FirstJob(i) ==
    /\ cron.pc = "job"
    /\ Launch(i)
    /\ cron' = [pc |-> "first", child |-> i]

\* Line 28 and 7-8: the job is due and run_pending calls job().
RunPending(i) ==
    /\ cron.pc = "pending"
    /\ Launch(i)
    /\ cron' = [pc |-> "run", child |-> i]

\* Line 28: the job is not due yet and run_pending returns.
NotDue ==
    /\ cron.pc = "pending"
    /\ cron' = [cron EXCEPT !.pc = "sleep"]
    /\ CronFrame

\* Line 8 returns: from the job of line 25 to the loop of line 26, from a job
\* of run_pending to line 33.
JobReturns ==
    /\ cron.pc \in {"first", "run"}
    /\ ChildEnded(cron.child)
    /\ cron' = [pc |-> IF cron.pc = "first" THEN "pending" ELSE "sleep",
                child |-> NoChild]
    /\ CronFrame

\* Line 33, and back to line 28.
Sleep ==
    /\ cron.pc = "sleep"
    /\ cron' = [cron EXCEPT !.pc = "pending"]
    /\ CronFrame

CronNext ==
    \/ \E i \in Invocations : FirstJob(i)
    \/ \E i \in Invocations : RunPending(i)
    \/ NotDue
    \/ JobReturns
    \/ Sleep
    \/ \E i \in Invocations : For(i)
    \/ \E i \in Invocations, r \in BOOLEAN : CheckUpkeep(i, r)
    \/ \E i \in Invocations : CheckUpkeepFails(i)
    \/ \E i \in Invocations, st \in {0, 1} : PerformUpkeep(i, st)
    \/ \E i \in Invocations : PerformUpkeepFails(i)
    \/ \E i \in Invocations, w \in WinnerCodes : GetWinner(i, w)
    \/ \E i \in Invocations : GetWinnerFails(i)
    \/ \E i \in Invocations, s \in ProviderScores : Fetch(i, s)
    \/ \E i \in Invocations : FetchFails(i)
    \/ \E i \in Invocations : UpdateAway(i)
    \/ \E i \in Invocations : UpdateStatus(i)
    \/ \E i \in Invocations : ExecuteFails(i)
    \/ \E i \in Invocations : Commit(i)
    \/ \E i \in Invocations : CommitFails(i)
    \/ \E i \in Invocations : Exit(i)
    \/ \E i \in Invocations : Crash(i)
    \/ Tick

SpecCron == Init /\ [][CronNext]_vars

(***************************************************************************)
(* What the properties below speak of.                                     *)
(***************************************************************************)
Has(i, e) == \E n \in 1..Len(calls[i]) : calls[i][n] = e
HasIn(i, es) == \E n \in 1..Len(calls[i]) : calls[i][n] \in es
\* The iteration of row k[i] is over and the next has not begun.
EndOfCycle(i) == pc[i] = "for" /\ k[i] >= 1
\* The iteration is over and it ended with the commit of line 137.
Committed(i) == EndOfCycle(i) /\ calls[i][Len(calls[i])] = "commit"
\* Line 132 was reached in this iteration.
RefetchRan(i) == caller[i] = "refetch"
Performs == {"perform:status1", "perform:status0", "perform:raised"}
Writes == {"home", "away", "status"}
\* The row of the iteration invocation i is in.
Row1(i) == cur(i).match_id

(***************************************************************************)
(* C1. Monotonicity: no step of any invocation, overlapping ones included, *)
(* takes the committed isDeployed of a row from 2 (Finalized) back to 1.   *)
(***************************************************************************)
C1_Monotonic ==
    [][\A m \in Matches : db[m].isDeployed = FINALIZED => db'[m].isDeployed = FINALIZED]_vars

\* A row already committed as Finalized is written again by an invocation that
\* still holds it as Active in its list, and that write is about to be committed.
C1_Witness ==
    \E i \in Invocations :
        /\ pc[i] = "commit"
        /\ cur(i).isDeployed = ACTIVE
        /\ db[Row1(i)].isDeployed = FINALIZED
        /\ Has(i, "status")
        /\ writer = i

(***************************************************************************)
(* C2. Upkeep gating: within an iteration performUpkeep is sent only after *)
(* checkUpkeep was called in that iteration and answered true; never after *)
(* it answered false or raised.                                            *)
(***************************************************************************)
C2_UpkeepGated ==
    \A i \in Invocations :
        /\ pc[i] = "perform" => calls[i] = <<"check:true">> /\ isUpkeepNeeded[i]
        /\ \A n \in 1..Len(calls[i]) :
               calls[i][n] \in Performs => n = 2 /\ calls[i][1] = "check:true"

\* performUpkeep was sent and mined in an iteration.
C2_Witness ==
    \E i \in Invocations : Has(i, "perform:status1") /\ pc[i] = "winner"

\* The row was deployed longer ago than the configured timeout and has a winner.
Eligible(i) == now[i] > cur(i).date + config * Day /\ matchState[i] # PENDING

(***************************************************************************)
(* C3. Throttle wraparound: in a batch whose rows are all eligible for the *)
(* branch of line 131, the re-fetch runs exactly on the rows at positions  *)
(* 0, 50, 100, ... of the batch and on no other.                           *)
(***************************************************************************)
C3_Every50th ==
    \A i \in Invocations :
        Committed(i) /\ Eligible(i) =>
            (RefetchRan(i) <=> (k[i] - 1) % ThrottlePeriod = 0)

(***************************************************************************)
(* C4. Fault isolation: an iteration that raises does not end the loop:    *)
(* the loop ends only when every row of the list has had its iteration,    *)
(* and an iteration that did not raise itself went through getWinner to    *)
(* the commit, with what it wrote committed.                               *)
(***************************************************************************)
C4_FaultIsolation ==
    \A i \in Invocations :
        /\ pc[i] = "done" => k[i] = Len(allDeployedBet[i])
        /\ EndOfCycle(i) /\ k[i] \notin raised[i] =>
               /\ Committed(i)
               /\ Has(i, "getWinner")
               /\ writer # i
               /\ Has(i, "status") => db[Row1(i)].isDeployed = FINALIZED

\* The first row's iteration raised, and the second row was finalized and
\* committed all the same.
C4_Witness ==
    \E i \in Invocations :
        /\ Committed(i)
        /\ k[i] = 2
        /\ raised[i] = {1}
        /\ Has(i, "status")
        /\ db[Row1(i)].isDeployed = FINALIZED

(***************************************************************************)
(* C5 as stated: for a row whose chain calls and score fetch all succeed   *)
(* in an iteration, at the end of the iteration the row is committed as    *)
(* Finalized with the fetched score iff now > date + 3 days or matchState  *)
(* # 0; otherwise no score is fetched and the row is not marked.           *)
(***************************************************************************)
ChainAndFetchOk(i) ==
    /\ EndOfCycle(i)
    /\ ~HasIn(i, {"check:raised", "perform:raised", "getWinner:raised", "fetch:raised"})

C5_AsStated ==
    \A i \in Invocations :
        ChainAndFetchOk(i) =>
            IF now[i] > cur(i).date + GraceDays * Day \/ matchState[i] # PENDING
            THEN /\ Committed(i)
                 /\ db[Row1(i)].isDeployed = FINALIZED
                 /\ db[Row1(i)].home_score = Some(score[i][1])
                 /\ db[Row1(i)].away_score = Some(score[i][2])
            ELSE ~HasIn(i, {"fetch", "status"})

(***************************************************************************)
(* C5 amended: when nothing raises in the iteration (chain calls, score    *)
(* fetch, UPDATEs and commit), the commit of line 137 leaves the row       *)
(* committed as Finalized with the fetched score iff now > date + 3 days   *)
(* or matchState # 0; otherwise the iteration fetched no score and its     *)
(* commit leaves the row as it was.                                        *)
(***************************************************************************)
C5_FinalizeIff ==
    [][\A i \in Invocations :
          (pc[i] = "commit" /\ pc'[i] = "for" /\ k[i] \notin raised'[i]) =>
              IF now[i] > cur(i).date + GraceDays * Day \/ matchState[i] # PENDING
              THEN /\ Has(i, "fetch")
                   /\ db'[Row1(i)].isDeployed = FINALIZED
                   /\ db'[Row1(i)].home_score = Some(score[i][1])
                   /\ db'[Row1(i)].away_score = Some(score[i][2])
              ELSE /\ ~HasIn(i, {"fetch"} \cup Writes)
                   /\ db'[Row1(i)] = db[Row1(i)]]_vars

\* Scenario A: no winner yet, the three days are over, the row is committed as
\* Finalized with the fetched score.
C5_Witness ==
    \E i \in Invocations :
        /\ Committed(i)
        /\ matchState[i] = PENDING
        /\ now[i] > cur(i).date + GraceDays * Day
        /\ Has(i, "status")
        /\ db[Row1(i)].isDeployed = FINALIZED
        /\ db[Row1(i)].home_score = Some(score[i][1])
        /\ db[Row1(i)].away_score = Some(score[i][2])

C7_FailedUpkeepStops ==
    \A i \in Invocations :
        HasIn(i, {"perform:raised", "perform:status0"}) =>
            ~HasIn(i, {"getWinner", "getWinner:raised", "fetch", "fetch:raised", "commit"}
                      \cup Writes)

(***************************************************************************)
(* C8. Scenario C: the eligible row processed when 49 eligible rows came   *)
(* before it in the batch (the throttle counter of the specification is    *)
(* 49) is re-fetched, and the counter is 0 afterwards.                     *)
(***************************************************************************)
C8_ScenarioC ==
    \A i \in Invocations :
        Committed(i) /\ Eligible(i) /\ k[i] = ThrottlePeriod =>
            RefetchRan(i) /\ tempo[i] = 0

(***************************************************************************)
(* C9. No mutual exclusion: an invocation that is not running can start    *)
(* whatever the others are doing.                                          *)
(***************************************************************************)
C9_NoMutualExclusion ==
    \A i \in Invocations : pc[i] = "idle" => ENABLED Start(i)

\* Every invocation holds the same row as Active in its list, has sent
\* performUpkeep for it and has run lines 127-128 for it.
C9_Witness ==
    \E m \in Matches :
        \A i \in Invocations :
            /\ k[i] >= 1
            /\ pc[i] # "idle"
            /\ Row1(i) = m
            /\ cur(i).isDeployed = ACTIVE
            /\ Has(i, "perform:status1")
            /\ Has(i, "fetch")
            /\ Has(i, "status")

(***************************************************************************)
(* C10. Score pairing: in the committed table home_score and away_score of *)
(* a row are both NULL or both set.                                        *)
(***************************************************************************)
C10_ScoresPaired ==
    \A m \in Matches : (db[m].home_score = NULL) <=> (db[m].away_score = NULL)

(***************************************************************************)
(* C11. Idempotent score fetch: when registerMatchScore runs a second time *)
(* for the same bet (line 132 after line 127, the same getMatchId) and the *)
(* provider answers as it did the first time, no step of the second run    *)
(* changes the store: the scores stay those of the first run and no other  *)
(* column, row or transaction state changes.                               *)
(***************************************************************************)
SecondRun(i) == caller[i] = "refetch" /\ Has(i, "status") /\ Len(fetched[i]) >= 1

C11_Idempotent ==
    [][\A i \in Invocations :
          /\ (SecondRun(i) /\ pc[i] = "fetch" /\ pc'[i] = "away"
                  /\ fetched'[i][2] = fetched[i][1])
                 => UNCHANGED <<db, wdb, writer>>
          /\ (SecondRun(i) /\ pc[i] = "away" /\ pc'[i] = "commit"
                  /\ fetched[i][2] = fetched[i][1])
                 => UNCHANGED <<db, wdb, writer>>]_vars

\* registerMatchScore has run twice in an iteration with the same answer, and
\* the row holds that score.
C11_Witness ==
    \E i \in Invocations :
        /\ pc[i] = "commit"
        /\ SecondRun(i)
        /\ Len(fetched[i]) = 2
        /\ fetched[i][1] = fetched[i][2]
        /\ wdb[Row1(i)].home_score = Some(fetched[i][1][1])
        /\ wdb[Row1(i)].away_score = Some(fetched[i][1][2])

(***************************************************************************)
(* C12. The branches of line 126 and line 131 are mutually exclusive: in   *)
(* no iteration is line 132 reached after lines 127-128 ran, so that an    *)
(* iteration asks the provider for the score at most once.                 *)
(***************************************************************************)
C12_Exclusive ==
    \A i \in Invocations :
        /\ ~(RefetchRan(i) /\ Has(i, "status"))
        /\ Len(fetched[i]) <= 1

\* Row m is in the list l of line 106.
InList(l, m) == \E n \in 1..Len(l) : l[n].match_id = m

(***************************************************************************)
(* C13. Finalized is terminal: an invocation that starts when a row is     *)
(* committed as Finalized does not have the row in its list; the list is   *)
(* taken once, at the start, and every call of an iteration is for the row *)
(* of the list it is at; an invocation writes and commits changes of rows  *)
(* of its list only.                                                       *)
(***************************************************************************)
C13_FinalizedTerminal ==
    [][\A i \in Invocations :
          /\ (pc[i] = "idle" /\ pc'[i] # "idle") =>
                 \A m \in Matches :
                     db[m].isDeployed = FINALIZED => ~InList(allDeployedBet'[i], m)
          /\ (pc[i] # "idle" /\ pc'[i] # "idle") =>
                 allDeployedBet'[i] = allDeployedBet[i]
          /\ \A m \in Matches :
                 /\ (wdb'[m] # wdb[m] /\ writer' = i) => InList(allDeployedBet[i], m)
                 /\ (db'[m] # db[m] /\ writer = i) => InList(allDeployedBet[i], m)]_vars

\* An invocation that started after a row was committed as Finalized has
\* finalized another row and is about to commit it.
C13_Witness ==
    \E i \in Invocations, m \in Matches :
        /\ db[m].isDeployed = FINALIZED
        /\ pc[i] = "commit"
        /\ ~InList(allDeployedBet[i], m)
        /\ Has(i, "status")
        /\ writer = i

\* A row holding part of what an iteration writes: a score without the mark of
\* line 128, the mark without a score, or one score without the other.
Partial(r) ==
    \/ (r.home_score = NULL) # (r.away_score = NULL)
    \/ (r.isDeployed = FINALIZED) # (r.home_score # NULL)

(***************************************************************************)
(* C14. Per-match atomicity under crash: no step of an invocation changes  *)
(* the committed row of a match the loop has not reached yet, and when the *)
(* process dies in the middle of a batch no committed row holds a partial  *)
(* update.                                                                 *)
(***************************************************************************)
C14_CrashAtomic ==
    [][\A i \in Invocations :
          /\ \A n \in 1..Len(allDeployedBet[i]) :
                 n > k[i] => db'[allDeployedBet[i][n].match_id]
                                = db[allDeployedBet[i][n].match_id]
          /\ (pc[i] \notin {"idle", "done"} /\ pc'[i] = "idle") =>
                 \A m \in Matches : ~Partial(db'[m])]_vars

(***************************************************************************)
(* C15. When checkUpkeep raises for a row, the iteration is over: it sends *)
(* no performUpkeep, calls no getWinner, fetches no score, runs no UPDATE  *)
(* and no commit; neither the step that begins the iteration nor the       *)
(* raising call changes the table or the transaction, so the row is stored *)
(* after the iteration as the invocation found it.                         *)
(***************************************************************************)
C15_CheckFailureSkips ==
    /\ [](\A i \in Invocations :
             Has(i, "check:raised") =>
                 /\ pc[i] = "for"
                 /\ k[i] \in raised[i]
                 /\ calls[i] = <<"check:raised", "error">>
                 /\ fetched[i] = <<>>)
    /\ [][\A i \in Invocations :
             ((pc[i] = "for" /\ pc'[i] = "check") \/ (pc[i] = "check" /\ pc'[i] = "for")) =>
                 UNCHANGED <<db, wdb, writer>>]_vars

\* checkUpkeep raised for a row that is due for finalization, and the row is
\* still as it was created.
C15_Witness ==
    \E i \in Invocations :
        /\ Has(i, "check:raised")
        /\ clock > cur(i).date + GraceDays * Day
        /\ db[Row1(i)] = Row(T0)
        /\ wdb[Row1(i)] = Row(T0)

Running == {i \in Invocations : pc[i] # "idle"}

(***************************************************************************)
(* C20. cron.py never has two main.py running: a main.py runs only while   *)
(* cron.py is inside job() waiting for it, and it is the one job() began;  *)
(* the job of line 25 is the first thing cron.py runs, it is run once, and *)
(* run_pending is reached only after it returned.                          *)
(***************************************************************************)
C20_OneAtATime ==
    /\ [](/\ Cardinality(Running) <= 1
          /\ \A i \in Running : cron.pc \in {"first", "run"} /\ cron.child = i
          /\ (cron.pc \in {"job", "pending", "sleep"} => cron.child = NoChild))
    /\ [][/\ ((cron.pc = "job" /\ cron' # cron) =>
                  (cron'.pc = "first" /\ cron'.child \in Running'))
           /\ ((cron.pc = "first" /\ cron' # cron) =>
                  (cron'.pc = "pending" /\ Running = {}))
           /\ (cron.pc # "job" => cron'.pc # "job")]_vars

\* The job of line 25 has returned and a job run by run_pending is under way.
C20_Witness ==
    /\ cron.pc = "run"
    /\ cron.child \in Running
    /\ pc[cron.child] = "commit"

\* The table as invocation i reads it through its connection: with what its
\* open transaction holds.
View(i) == IF writer = i THEN wdb ELSE db

C16_FailedStaysActive ==
    [][\A i \in Invocations :
          (pc[i] = "done" /\ pc'[i] = "idle") =>
              \A n \in raised[i] :
                  db'[allDeployedBet[i][n].match_id].isDeployed = ACTIVE]_vars

(***************************************************************************)
(* C18. No durable effect of a failed match: once the iteration on a row   *)
(* has raised, no later step of the invocation changes the committed row:  *)
(* what the iteration had written and not committed does not become        *)
(* durable, in particular not by the commit of a later row.                *)
(***************************************************************************)
C18_NoDurableEffect ==
    [][\A i \in Invocations :
          pc'[i] # "idle" =>
              \A n \in raised[i] :
                  db'[allDeployedBet[i][n].match_id] = db[allDeployedBet[i][n].match_id]]_vars

(***************************************************************************)
(* C19 as stated: tempo is 0 or 1, and line 132 is reached at most once in *)
(* an invocation.                                                          *)
(***************************************************************************)
C19_AsStated ==
    \A i \in Invocations : tempo[i] \in {0, 1} /\ refetches[i] <= 1

(***************************************************************************)
(* C19 amended: tempo is 0 or 1; it is 0 while the call of line 132 runs   *)
(* and 1 once that call has returned, and from then on to the end of the   *)
(* invocation it stays 1 and line 132 is not reached again.  Line 132 is   *)
(* reached again only after a call of line 132 that raised: at most once   *)
(* more than iterations have raised.                                       *)
(***************************************************************************)
C19_TempoZeroOne ==
    /\ [](\A i \in Invocations :
             /\ tempo[i] \in {0, 1}
             /\ (RefetchRan(i) /\ pc[i] \in {"fetch", "away"}) => tempo[i] = 0
             /\ (RefetchRan(i) /\ pc[i] = "commit") => tempo[i] = 1
             /\ refetches[i] <= Cardinality(raised[i]) + 1)
    /\ [][\A i \in Invocations :
             (tempo[i] = 1 /\ pc'[i] # "idle") =>
                 (tempo'[i] = 1 /\ refetches'[i] = refetches[i])]_vars

\* The first row was re-fetched; the second is as eligible and is committed
\* without a re-fetch.
C19_Witness ==
    \E i \in Invocations :
        /\ Committed(i)
        /\ k[i] = 2
        /\ Eligible(i)
        /\ ~RefetchRan(i)
        /\ tempo[i] = 1
        /\ refetches[i] = 1

====
